---- MODULE Spec2Model ----
(***************************************************************************)
(* brainrust: the tree builder, the optimizer and the execution engine of  *)
(* src/src/main.rs, and the driver (main) that chains them.                *)
(***************************************************************************)
EXTENDS Integers, Sequences, FiniteSets, TLC

VARIABLES
    source,     \* the program text, a sequence of characters
    pc,         \* the driver's position in main
    raw,        \* the tree returned by build (None before, and on a parse error)
    once,       \* the result of the first optimize of main's line 301
    program,    \* the tree main executes (the result of the second optimize)
    node,       \* the node whose execute call is observed (main: `program`)
    entry,      \* the Engine as that call finds it
    engine,     \* the Engine as that call leaves it
    oracle      \* a second Engine, after executing `raw` from `entry`

vars == <<source, pc, raw, once, program, node, entry, engine, oracle>>

(***************************************************************************)
(* Bounds of the model.                                                    *)
(***************************************************************************)
MaxFragments == 3    \* most fragments a program text is made of
FoldLen == 6         \* longest text made of pointer and value commands only
MaxIter == 256       \* iterations of one loop followed before giving up

(***************************************************************************)
(* Machine integers.                                                       *)
(***************************************************************************)
U8 == 256
I32Max == 2147483647

wrapping_add_u8(a, b) == (a + b) % U8

\* does a + b leave the range of i32 (a panic under overflow checks)
Overflows_i32(a, b) ==
    \/ (b > 0 /\ a > I32Max - b)
    \/ (b < 0 /\ a < (-I32Max - 1) - b)

\* i32::wrapping_add, computed without leaving the range of i32
wrapping_add_i32(a, b) ==
    IF b > 0 /\ a > I32Max - b
    THEN ((a - I32Max) - 1) + ((b - I32Max) - 1)
    ELSE IF b < 0 /\ a < (-I32Max - 1) - b
    THEN ((a + I32Max) + 1) + ((b + I32Max) + 1)
    ELSE a + b

(***************************************************************************)
(* Command: the eight primitive commands, and the characters they map to.  *)
(***************************************************************************)
Command ==
    {"IncremenentPointer", "DecrementPointer", "IncrementValue",
     "DecrementValue", "Print", "Read", "Jump", "Target"}

\* TryFrom<char> for Command
try_from(c) ==
    IF c = ">" THEN "IncremenentPointer"
    ELSE IF c = "<" THEN "DecrementPointer"
    ELSE IF c = "+" THEN "IncrementValue"
    ELSE IF c = "-" THEN "DecrementValue"
    ELSE IF c = "." THEN "Print"
    ELSE IF c = "," THEN "Read"
    ELSE IF c = "[" THEN "Jump"
    ELSE IF c = "]" THEN "Target"
    ELSE "InvalidData"

\* source.chars().filter_map(|c| Command::try_from(c).ok())
filter_map(text) ==
    LET kept == SelectSeq(text, LAMBDA c : try_from(c) # "InvalidData")
    IN  [i \in 1..Len(kept) |-> try_from(kept[i])]

(***************************************************************************)
(* OptimizedCommand: one record shape for all eight variants; n is the     *)
(* integer payload, v the children (the body of a Jump is v[1]).  None is  *)
(* Option::None.                                                           *)
(***************************************************************************)
MovePointer(d) == [tag |-> "MovePointer", n |-> d, v |-> <<>>]
AddValue(d) == [tag |-> "AddValue", n |-> d, v |-> <<>>]
SetValue(d) == [tag |-> "SetValue", n |-> d, v |-> <<>>]
PrintNode == [tag |-> "Print", n |-> 0, v |-> <<>>]
ReadNode == [tag |-> "Read", n |-> 0, v |-> <<>>]
List(commands) == [tag |-> "List", n |-> 0, v |-> commands]
Jump(c) == [tag |-> "Jump", n |-> 0, v |-> <<c>>]
AddTo(d) == [tag |-> "AddTo", n |-> d, v |-> <<>>]
None == [tag |-> "None", n |-> 0, v |-> <<>>]

(***************************************************************************)
(* OptimizedCommand::build                                                 *)
(***************************************************************************)
\* the arms of build's match that push one node without recursion
Surface(command) ==
    IF command = "IncremenentPointer" THEN MovePointer(1)
    ELSE IF command = "DecrementPointer" THEN MovePointer(-1)
    ELSE IF command = "IncrementValue" THEN AddValue(1)
    ELSE IF command = "DecrementValue" THEN AddValue(255)
    ELSE IF command = "Print" THEN PrintNode
    ELSE ReadNode

\* OnTarget gone wrong: a loop-end outside every loop ends the list too
OnTargetLenient(in_loop, commands, pos) ==
    [ok |-> TRUE, node |-> List(commands), pos |-> pos]

\* the Command::Target arm: break inside a loop, Err(InvalidData) outside
OnTarget(in_loop, commands, pos) ==
    IF in_loop
    THEN [ok |-> TRUE, node |-> List(commands), pos |-> pos]
    ELSE [ok |-> FALSE, node |-> None, pos |-> pos]

RECURSIVE build_from(_, _, _, _)
\* build's while-let loop from position i of the iterator s, with `commands`
\* pushed so far; the result carries the iterator's position after the call
build_from(s, i, in_loop, commands) ==
    IF i > Len(s)
    THEN [ok |-> TRUE, node |-> List(commands), pos |-> i]
    ELSE IF s[i] = "Jump"
    THEN LET r == build_from(s, i + 1, TRUE, <<>>)
         IN  IF r.ok
             THEN build_from(s, r.pos, in_loop, Append(commands, Jump(r.node)))
             ELSE r
    ELSE IF s[i] = "Target"
    THEN OnTarget(in_loop, commands, i + 1)
    ELSE build_from(s, i + 1, in_loop, Append(commands, Surface(s[i])))

build(s, in_loop) == build_from(s, 1, in_loop, <<>>)

(***************************************************************************)
(* OptimizedCommand::optimize, optimize_vec, optimize_jump                 *)
(***************************************************************************)
RECURSIVE optimize(_)
RECURSIVE optimize_vec(_)

\* Fold gone wrong: a node that optimizes to nothing takes the incoming
\* command with it
FoldDropping(out, holding, command) ==
    IF holding = None
    THEN [out |-> out, holding |-> command]
    ELSE LET optimized == optimize(holding)
         IN  IF optimized # None
             THEN [out |-> Append(out, optimized), holding |-> command]
             ELSE [out |-> out, holding |-> None]

\* one iteration of optimize_vec's for loop: the match on (holding, command)
Fold(out, holding, command) ==
    IF holding = None
    THEN [out |-> out, holding |-> command]
    ELSE IF command = AddValue(0)
    THEN [out |-> out, holding |-> holding]
    ELSE IF command = MovePointer(0)
    THEN [out |-> out, holding |-> holding]
    ELSE IF holding.tag = "SetValue" /\ command.tag = "AddValue"
    THEN [out |-> out,
          holding |-> SetValue(wrapping_add_u8(holding.n, command.n))]
    ELSE IF holding.tag = "SetValue" /\ command.tag = "SetValue"
    THEN [out |-> out, holding |-> SetValue(command.n)]
    ELSE IF holding.tag = "AddValue" /\ command.tag = "AddValue"
    THEN [out |-> out,
          holding |-> optimize(AddValue(wrapping_add_u8(holding.n, command.n)))]
    ELSE IF holding.tag = "MovePointer" /\ command.tag = "MovePointer"
    THEN [out |-> out,
          holding |-> optimize(MovePointer(wrapping_add_i32(holding.n, command.n)))]
    ELSE LET optimized == optimize(holding)
         IN  [out |-> IF optimized # None THEN Append(out, optimized) ELSE out,
              holding |-> command]

RECURSIVE FoldAll(_, _, _, _)
\* optimize_vec's for loop over v from index i
FoldAll(v, i, out, holding) ==
    IF i > Len(v)
    THEN [out |-> out, holding |-> holding]
    ELSE LET r == Fold(out, holding, v[i])
         IN  FoldAll(v, i + 1, r.out, r.holding)

\* the flush of `holding` after the loop: holding.and_then(|c| c.optimize())
Flush(out, holding) ==
    LET last == IF holding = None THEN None ELSE optimize(holding)
    IN  IF last # None THEN Append(out, last) ELSE out

RECURSIVE CompactFrom(_, _)
CompactFrom(out, i) ==
    IF i > Len(out)
    THEN <<>>
    ELSE IF out[i].tag = "List"
    THEN out[i].v \o CompactFrom(out, i + 1)
    ELSE <<out[i]>> \o CompactFrom(out, i + 1)

\* Compact gone wrong: child lists are kept as they are
CompactNothing(out) == out

\* the compaction block: the children of a child List are spliced in
Compact(out) == CompactFrom(out, 1)

optimize_vec(v) ==
    LET r == FoldAll(v, 1, <<>>, None)
    IN  Compact(Flush(r.out, r.holding))

\* Rewrite gone wrong: every loop around a lone AddValue is cleared
RewriteAnyAdd(inner) ==
    IF inner.tag = "AddValue" THEN SetValue(0) ELSE Jump(inner)

\* Rewrite gone wrong: a loop that only moves the pointer is erased
RewriteDropMove(inner) ==
    IF inner.tag = "MovePointer" THEN None ELSE Jump(inner)

\* optimize_jump's match on the optimized loop body
Rewrite(inner) ==
    IF inner = AddValue(1) THEN SetValue(0)
    ELSE IF inner = AddValue(255) THEN SetValue(0)
    ELSE IF inner.tag = "List"
    THEN LET v == inner.v
         IN  IF /\ Len(v) = 4
                /\ v[1] = AddValue(255)
                /\ v[2].tag = "MovePointer"
                /\ v[3] = AddValue(1)
                /\ v[4].tag = "MovePointer"
                /\ v[2].n = -v[4].n
             THEN List(<<AddTo(v[2].n), SetValue(0)>>)
             ELSE IF /\ Len(v) = 6
                     /\ v[1] = AddValue(255)
                     /\ v[2].tag = "MovePointer"
                     /\ v[3] = AddValue(1)
                     /\ v[4].tag = "MovePointer"
                     /\ v[5] = AddValue(1)
                     /\ v[6].tag = "MovePointer"
                     /\ v[2].n + v[4].n = -v[6].n
             THEN List(<<AddTo(v[2].n), AddTo(v[2].n + v[4].n), SetValue(0)>>)
             ELSE Jump(List(v))
    ELSE Jump(inner)

optimize_jump(inner) ==
    LET o == optimize(inner)
    IN  IF o # None THEN Rewrite(o) ELSE None

optimize(self) ==
    IF self = MovePointer(0) THEN None
    ELSE IF self = AddValue(0) THEN None
    ELSE IF self.tag = "List" /\ self.v = <<>> THEN None
    ELSE IF self.tag = "List"
    THEN LET commands == optimize_vec(self.v)
         IN  IF commands = <<>> THEN None
             ELSE IF Len(commands) = 1 THEN commands[1]
             ELSE List(commands)
    ELSE IF self.tag = "Jump" THEN optimize_jump(self.v[1])
    ELSE self

\* Option::and_then(OptimizedCommand::optimize)
and_then_optimize(o) == IF o = None THEN None ELSE optimize(o)

(***************************************************************************)
(* Engine.  tape is the HashMap<i32, u8>: a function on the inserted       *)
(* addresses.  reader is what is left on standard input, writer what was   *)
(* written.  overflow_checks is the build profile: `+` and `+=` panic on   *)
(* overflow when it is on and wrap when it is off.  status is "ok" while   *)
(* the run goes on, "panicked" after a panic, "looping" in a loop that can *)
(* never end, "unknown" once a loop was followed MaxIter times.            *)
(***************************************************************************)
EmptyTape == [a \in {} |-> 0]

new(reader, checks) ==
    [tape |-> EmptyTape, pointer |-> 0, reader |-> reader, writer |-> <<>>,
     overflow_checks |-> checks, status |-> "ok"]

Cell(tape, a) == IF a \in DOMAIN tape THEN tape[a] ELSE 0

Insert(tape, a, value) ==
    [x \in (DOMAIN tape) \cup {a} |-> IF x = a THEN value ELSE tape[x]]

panic(e) == [e EXCEPT !.status = "panicked"]

move_tape(e, amount) ==
    IF e.overflow_checks /\ Overflows_i32(e.pointer, amount)
    THEN panic(e)
    ELSE [e EXCEPT !.pointer = wrapping_add_i32(e.pointer, amount)]

get(e) == Cell(e.tape, e.pointer)

get_rel(e, offset) == Cell(e.tape, wrapping_add_i32(e.pointer, offset))

set(e, value) == [e EXCEPT !.tape = Insert(e.tape, e.pointer, value)]

set_rel(e, value, offset) ==
    [e EXCEPT !.tape = Insert(e.tape, wrapping_add_i32(e.pointer, offset), value)]

write(e, value) == [e EXCEPT !.writer = Append(e.writer, value)]

\* read_exact(..).unwrap() followed by set: a panic at the end of input
read_set(e) ==
    IF e.reader = <<>>
    THEN panic(e)
    ELSE set([e EXCEPT !.reader = Tail(e.reader)], Head(e.reader))

\* add_to gone wrong: the sum is written to the current cell
add_to_here(e, d) == set(e, wrapping_add_u8(get(e), get_rel(e, d)))

\* the AddTo arm of execute: engine.set_rel(engine.get() + engine.get_rel(d), d)
add_to(e, d) ==
    IF e.overflow_checks
       /\ (Overflows_i32(e.pointer, d) \/ get(e) + get_rel(e, d) >= U8)
    THEN panic(e)
    ELSE set_rel(e, wrapping_add_u8(get(e), get_rel(e, d)), d)

(***************************************************************************)
(* OptimizedCommand::execute                                               *)
(***************************************************************************)
RECURSIVE execute(_, _)
RECURSIVE execute_list(_, _, _)
RECURSIVE execute_jump(_, _, _)
RECURSIVE while_nonzero(_, _)

\* the List arm: v.iter().for_each(|c| c.execute(engine)), from index i
execute_list(v, i, e) ==
    IF i > Len(v) \/ e.status # "ok"
    THEN e
    ELSE execute_list(v, i + 1, execute(v[i], e))

\* one turn of the Jump arm's while loop: the test, then the body.  A body
\* that hands back the state it was given will do so for ever: "looping".
execute_turn(c, e) ==
    IF e.status # "ok" \/ get(e) = 0
    THEN e
    ELSE LET after == execute(c, e)
         IN  IF after = e THEN [e EXCEPT !.status = "looping"] ELSE after

\* up to `turns` turns of the while loop (halved, to keep the nesting of the
\* evaluation logarithmic in `turns`)
execute_jump(c, e, turns) ==
    IF e.status # "ok" \/ get(e) = 0 \/ turns = 0
    THEN e
    ELSE IF turns = 1
    THEN execute_turn(c, e)
    ELSE execute_jump(c, execute_jump(c, e, turns \div 2), turns - (turns \div 2))

\* the Jump arm: while engine.get() != 0 { c.execute(engine) }
while_nonzero(c, e) ==
    LET after == execute_jump(c, e, MaxIter)
    IN  IF after.status = "ok" /\ get(after) # 0
        THEN [after EXCEPT !.status = "unknown"]
        ELSE after

execute(self, e) ==
    IF e.status # "ok" THEN e
    ELSE IF self.tag = "MovePointer" THEN move_tape(e, self.n)
    ELSE IF self.tag = "AddValue" THEN set(e, wrapping_add_u8(get(e), self.n))
    ELSE IF self.tag = "SetValue" THEN set(e, self.n)
    ELSE IF self.tag = "Print" THEN write(e, get(e))
    ELSE IF self.tag = "Read" THEN read_set(e)
    ELSE IF self.tag = "List" THEN execute_list(self.v, 1, e)
    ELSE IF self.tag = "Jump" THEN while_nonzero(self.v[1], e)
    ELSE add_to(e, self.n)

\* two tapes that read the same at every address
TapeEq(t1, t2) ==
    \A a \in (DOMAIN t1) \cup (DOMAIN t2) : Cell(t1, a) = Cell(t2, a)

(***************************************************************************)
(* The driver: main.                                                       *)
(***************************************************************************)
SeqsUpTo(S, n) == UNION {[1..k -> S] : k \in 0..n}

RECURSIVE Concat(_)
Concat(parts) == IF parts = <<>> THEN <<>> ELSE Head(parts) \o Concat(Tail(parts))

\* the program texts of Spec are made of these: every command character, a
\* character that is no command, and the empty loop
Fragments ==
    {<<">">>, <<"<">>, <<"+">>, <<"-">>, <<".">>, <<",">>, <<"[">>, <<"]">>,
     <<"x">>,
     <<"[", "]">>}

Texts == {Concat(parts) : parts \in SeqsUpTo(Fragments, MaxFragments)}

\* what may wait on standard input
Inputs == {<<>>, <<65>>}

Idle == new(<<>>, FALSE)

Init ==
    /\ source \in Texts
    /\ pc = "start"
    /\ raw = None
    /\ once = None
    /\ program = None
    /\ node = None
    /\ entry = Idle
    /\ engine = Idle
    /\ oracle = Idle

\* lines 293-298: build returns Ok
Build ==
    /\ pc = "start"
    /\ build(filter_map(source), FALSE).ok
    /\ raw' = build(filter_map(source), FALSE).node
    /\ pc' = "built"
    /\ UNCHANGED <<source, once, program, node, entry, engine, oracle>>

\* lines 293-299: build returns Err and unwrap panics
BuildFails ==
    /\ pc = "start"
    /\ ~build(filter_map(source), FALSE).ok
    /\ pc' = "parse_error"
    /\ UNCHANGED <<source, raw, once, program, node, entry, engine, oracle>>

\* line 301, program.optimize()
OptimizeFirst ==
    /\ pc = "built"
    /\ once' = optimize(raw)
    /\ pc' = "once"
    /\ UNCHANGED <<source, raw, program, node, entry, engine, oracle>>

\* line 301, .and_then(OptimizedCommand::optimize).unwrap() on Some
OptimizeSecond ==
    /\ pc = "once"
    /\ and_then_optimize(once) # None
    /\ program' = and_then_optimize(once)
    /\ pc' = "optimized"
    /\ UNCHANGED <<source, raw, once, node, entry, engine, oracle>>

\* line 301, .unwrap() on None: the driver panics
UnwrapNone ==
    /\ pc = "once"
    /\ and_then_optimize(once) = None
    /\ pc' = "aborted"
    /\ UNCHANGED <<source, raw, once, program, node, entry, engine, oracle>>

\* execute(nd) called on an engine in state e; when nd is the whole program,
\* the reference engine executes the tree build returned from the same state
Run(nd, e) ==
    /\ node' = nd
    /\ entry' = e
    /\ engine' = execute(nd, e)
    /\ oracle' = IF nd = program THEN execute(raw, e) ELSE e
    /\ pc' = "done"
    /\ UNCHANGED <<source, raw, once, program>>

\* lines 303-306: a fresh engine executes the program
Execute ==
    /\ pc = "optimized"
    /\ \E reader \in Inputs, checks \in BOOLEAN : Run(program, new(reader, checks))

Next ==
    \/ Build
    \/ BuildFails
    \/ OptimizeFirst
    \/ OptimizeSecond
    \/ UnwrapNone
    \/ Execute

Spec == Init /\ [][Next]_vars

(***************************************************************************)
(* SpecTree: the driver up to the optimized tree, on texts that also hold  *)
(* the loops the optimizer rewrites, and on longer texts made of pointer   *)
(* and value commands only.                                                *)
(***************************************************************************)
Loops ==
    {<<"[", "-", "]">>,
     <<"[", ">", "]">>,
     <<"[", "-", ">", "+", "<", "]">>,
     <<"[", "-", ">", "+", ">", "+", "<", "<", "]">>}

TreeTexts ==
    {Concat(parts) : parts \in SeqsUpTo(Fragments \cup Loops, MaxFragments)}
    \cup SeqsUpTo({">", "<", "+", "-"}, FoldLen)

InitTree ==
    /\ source \in TreeTexts
    /\ pc = "start"
    /\ raw = None
    /\ once = None
    /\ program = None
    /\ node = None
    /\ entry = Idle
    /\ engine = Idle
    /\ oracle = Idle

NextTree ==
    \/ Build
    \/ BuildFails
    \/ OptimizeFirst
    \/ OptimizeSecond
    \/ UnwrapNone

SpecTree == InitTree /\ [][NextTree]_vars

(***************************************************************************)
(* SpecEngine: one loop, built and optimized as main does, and executed    *)
(* from every engine state of a sample: any byte in the current cell, the  *)
(* cells next to it empty, small or full, under both build profiles.       *)
(***************************************************************************)
LoopTexts ==
    {<<"[", "]">>,
     <<"[", ">", "<", "]">>,
     <<"[", "[", "]", "]">>,
     <<"[", "-", "]">>,
     <<"[", "+", "]">>,
     <<"[", "-", "-", "]">>,
     <<"[", "+", "+", "]">>,
     <<"[", "-", "-", "-", "]">>,
     <<"[", ">", "]">>,
     <<"[", "<", "]">>,
     <<"[", ">", "[", "]", "]">>,
     <<"[", "-", ">", "+", "<", "]">>,
     <<"[", "-", "<", "+", ">", "]">>,
     <<"[", "-", ">", "+", ">", "+", "<", "<", "]">>,
     <<"[", "-", "<", "+", ">", ">", "+", "<", "]">>}

\* an engine in the middle of a run: pointer p, the bytes l, c, r in the
\* cells before, at and after it, overflow checks k
Mid(p, l, c, r, k) ==
    [tape |-> (p - 1 :> l) @@ (p :> c) @@ (p + 1 :> r),
     pointer |-> p, reader |-> <<>>, writer |-> <<>>,
     overflow_checks |-> k, status |-> "ok"]

Neighbours == {0, 1, 255}

Engines ==
    {Mid(0, 0, c, 0, k) : c \in 0..(U8 - 1), k \in BOOLEAN}
    \cup {Mid(5, l, c, r, k) :
            l \in Neighbours, c \in {1, 2, 255}, r \in Neighbours, k \in BOOLEAN}

InitEngine ==
    /\ source \in LoopTexts
    /\ pc = "start"
    /\ raw = None
    /\ once = None
    /\ program = None
    /\ node = None
    /\ entry = Idle
    /\ engine = Idle
    /\ oracle = Idle

\* the subtrees execute is called on while `tree` runs: the tree, and the
\* children of a List
Calls(tree) ==
    {tree} \cup (IF tree.tag = "List" THEN {tree.v[i] : i \in 1..Len(tree.v)} ELSE {})

\* lines 162-182: execute called on the loop as optimized, or on one node of
\* it, in the middle of a run
ExecuteFrom ==
    /\ pc = "optimized"
    /\ \E e \in Engines, nd \in Calls(program) : Run(nd, e)

NextEngine ==
    \/ Build
    \/ OptimizeFirst
    \/ OptimizeSecond
    \/ UnwrapNone
    \/ ExecuteFrom

SpecEngine == InitEngine /\ [][NextEngine]_vars

(***************************************************************************)
(* What the properties below speak of.                                     *)
(***************************************************************************)
Built == pc \in {"built", "once", "optimized", "aborted", "done"}
OptimizedOnce == pc \in {"once", "optimized", "aborted", "done"}
OptimizedTwice == pc \in {"optimized", "done"}

\* the number of c among the first k commands of s
Count(s, c, k) == Cardinality({i \in 1..k : s[i] = c})

\* some prefix of s holds more loop-ends than loop-begins
HasUnmatchedTarget(s) ==
    \E k \in 1..Len(s) : Count(s, "Target", k) > Count(s, "Jump", k)

\* s with a loop-end added for every loop still open at its end
Closed(s) ==
    s \o [i \in 1..(Count(s, "Jump", Len(s)) - Count(s, "Target", Len(s))) |-> "Target"]

RECURSIVE Nodes(_)
\* the nodes of a tree, at every depth
Nodes(t) == {t} \cup UNION {Nodes(t.v[i]) : i \in 1..Len(t.v)}

\* the shape an optimized tree is to have, at every depth
WellFormed(t) ==
    \A x \in Nodes(t) :
        /\ x # MovePointer(0)
        /\ x # AddValue(0)
        /\ x.tag = "List" =>
              /\ Len(x.v) >= 2
              /\ \A i \in 1..Len(x.v) : x.v[i].tag # "List"

RECURSIVE IoTrace(_, _)
\* the Print and Read nodes of a tree, depth first and left to right, each
\* with whether it lies inside a loop
IoTrace(t, in_loop) ==
    IF t.tag \in {"Print", "Read"} THEN <<<<t.tag, in_loop>>>>
    ELSE IF t.tag = "Jump" THEN IoTrace(t.v[1], TRUE)
    ELSE IF t.tag = "List"
    THEN Concat([i \in 1..Len(t.v) |-> IoTrace(t.v[i], in_loop)])
    ELSE <<>>

\* every cell but those at the addresses in `but` reads the same in t1 and t2
SameBut(t1, t2, but) ==
    \A a \in ((DOMAIN t1) \cup (DOMAIN t2)) \ but : Cell(t1, a) = Cell(t2, a)

\* the first address from the pointer on whose cell holds 0
FirstZero(e) ==
    CHOOSE a \in e.pointer..(e.pointer + 3) :
        /\ Cell(e.tape, a) = 0
        /\ \A b \in e.pointer..(a - 1) : Cell(e.tape, b) # 0

\* the loop a text of SpecEngine consists of, as build returns it
TheLoop == raw.v[1]

(***************************************************************************)
(* C1.  The unoptimized tree and the twice-optimized tree write the same   *)
(* bytes when run against the same input (runs the model followed to their *)
(* end, or into a loop that cannot end).                                   *)
(***************************************************************************)
C1_SameOutput ==
    (pc = "done" /\ engine.status # "unknown" /\ oracle.status # "unknown")
        => engine.writer = oracle.writer

(***************************************************************************)
(* C2.  A third optimize leaves the twice-optimized tree as it is.         *)
(***************************************************************************)
C2_ThirdOptimizeChangesNothing ==
    pc = "optimized" => optimize(program) = program

(***************************************************************************)
(* C3.  Every tree optimize returns, after one application or two, holds   *)
(* at no depth an empty List, a List of one child, a List directly inside  *)
(* a List, an AddValue(0) or a MovePointer(0).                             *)
(***************************************************************************)
C3_OptimizedTreesWellFormed ==
    /\ (OptimizedOnce /\ once # None) => WellFormed(once)
    /\ OptimizedTwice => WellFormed(program)

C3_Witness ==
    /\ pc = "optimized"
    /\ once = List(<<AddTo(1), SetValue(0), PrintNode>>)
    /\ program = once

(***************************************************************************)
(* C4.  build on a whole program fails exactly when some prefix holds more *)
(* loop-ends than loop-begins; otherwise it returns one root List, the     *)
(* tree of the text with its open loops closed.  After a failure there is  *)
(* no tree, nothing was executed, and the driver takes no further step.    *)
(***************************************************************************)
C4_BuildFailsIffUnmatched ==
    /\ pc = "parse_error" =>
          /\ HasUnmatchedTarget(filter_map(source))
          /\ raw = None /\ once = None /\ program = None
          /\ node = None /\ engine = Idle /\ oracle = Idle
          /\ ~ENABLED Next
    /\ Built =>
          /\ ~HasUnmatchedTarget(filter_map(source))
          /\ raw.tag = "List"
          /\ raw = build(Closed(filter_map(source)), FALSE).node

C4_Witness ==
    /\ pc = "parse_error"
    /\ source = <<"[", "]", "]">>

(***************************************************************************)
(* C5.  Where optimize_jump puts [AddTo(a), SetValue(0)] or [AddTo(a),     *)
(* AddTo(a+b), SetValue(0)] for a loop, executing the replacement from any *)
(* engine state ends, like the loop, with the pointer where it was, the    *)
(* source cell 0 and the tape of the loop's run; the offsets are not 0 and *)
(* differ.                                                                 *)
(***************************************************************************)
IsTransfer(t) ==
    /\ t.tag = "List"
    /\ t.v[Len(t.v)] = SetValue(0)
    /\ \A i \in 1..(Len(t.v) - 1) : t.v[i].tag = "AddTo"

C5_TransferMatchesLoop ==
    (pc = "done" /\ node = program /\ IsTransfer(program)) =>
        /\ engine.status = "ok"
        /\ oracle.status = "ok"
        /\ engine.pointer = oracle.pointer
        /\ engine.pointer = entry.pointer
        /\ TapeEq(engine.tape, oracle.tape)
        /\ get(engine) = 0
        /\ \A i \in 1..(Len(program.v) - 1) : program.v[i].n # 0
        /\ Len(program.v) = 3 => program.v[1].n # program.v[2].n

(***************************************************************************)
(* C6.  AddTo(offset) never fails; it leaves in the cell at pointer+offset *)
(* the sum, modulo 256, of that cell and the current cell, and leaves the  *)
(* pointer and every other cell as they were.                              *)
(***************************************************************************)
C6_AddToWraps ==
    (pc = "done" /\ node.tag = "AddTo") =>
        /\ engine.status = "ok"
        /\ engine.pointer = entry.pointer
        /\ Cell(engine.tape, entry.pointer + node.n)
              = (get_rel(entry, node.n) + get(entry)) % U8
        /\ SameBut(engine.tape, entry.tape, {entry.pointer + node.n})

(***************************************************************************)
(* C7.  A loop whose optimized body is a lone AddValue(d) becomes          *)
(* SetValue(0) exactly when d is 1 or 255; executing SetValue(0) from any  *)
(* value of the current cell ends as the loop does: current cell 0, the    *)
(* pointer and the other cells as they were, nothing written.              *)
(***************************************************************************)
C7_ClearLoop ==
    (OptimizedOnce /\ optimize(TheLoop.v[1]).tag = "AddValue") =>
        /\ (once = SetValue(0)) <=> (optimize(TheLoop.v[1]).n \in {1, 255})
        /\ (pc = "done" /\ once = SetValue(0)) =>
              /\ node = SetValue(0)
              /\ engine.status = "ok"
              /\ oracle.status = "ok"
              /\ get(engine) = 0
              /\ engine.pointer = entry.pointer
              /\ engine.pointer = oracle.pointer
              /\ TapeEq(engine.tape, oracle.tape)
              /\ SameBut(engine.tape, entry.tape, {entry.pointer})
              /\ engine.writer = entry.writer
              /\ oracle.writer = entry.writer

C7_Witness ==
    /\ pc = "done"
    /\ source = <<"[", "+", "]">>
    /\ node = SetValue(0)
    /\ get(entry) = 1
    /\ oracle.status = "ok"

(***************************************************************************)
(* C8.  optimize erases a Jump exactly when the Jump's body optimizes to   *)
(* nothing.  `[>]` becomes Jump(MovePointer(1)); executed on a nonzero     *)
(* cell it stops at the first cell holding 0 and changes no cell.          *)
(***************************************************************************)
C8_JumpErasedIffBodyErased ==
    /\ Built =>
          \A j \in Nodes(raw) :
              j.tag = "Jump" => ((optimize(j) = None) <=> (optimize(j.v[1]) = None))
    /\ (OptimizedTwice /\ source = <<"[", ">", "]">>) =>
          /\ once = Jump(MovePointer(1))
          /\ program = Jump(MovePointer(1))
    /\ (pc = "done" /\ source = <<"[", ">", "]">> /\ get(entry) # 0) =>
          /\ node = program
          /\ engine.status = "ok"
          /\ engine.pointer = FirstZero(entry)
          /\ engine.pointer > entry.pointer
          /\ TapeEq(engine.tape, entry.tape)
          /\ engine.writer = entry.writer

C8_Witness ==
    /\ pc = "done"
    /\ source = <<"[", ">", "]">>
    /\ program = Jump(MovePointer(1))
    /\ get(entry) # 0
    /\ engine.pointer = entry.pointer + 2

(***************************************************************************)
(* C9.  optimize keeps the Print and Read nodes: their sequence, depth     *)
(* first and left to right, and whether each lies inside a loop are the    *)
(* same in the tree build returned and after one or two applications.      *)
(***************************************************************************)
C9_IoOrderKept ==
    /\ OptimizedOnce => IoTrace(once, FALSE) = IoTrace(raw, FALSE)
    /\ OptimizedTwice => IoTrace(program, FALSE) = IoTrace(raw, FALSE)
    /\ pc = "aborted" => IoTrace(raw, FALSE) = <<>>

C9_Witness ==
    /\ pc = "optimized"
    /\ source = <<",", "[", ".">>
    /\ program = List(<<ReadNode, Jump(PrintNode)>>)
    /\ IoTrace(program, FALSE) = <<<<"Read", FALSE>>, <<"Print", TRUE>>>>

(***************************************************************************)
(* C10.  For a text build accepts, build -> optimize -> optimize yields a  *)
(* tree and the driver reaches execution.                                  *)
(***************************************************************************)
C10_AcceptedProgramsRun ==
    pc # "aborted"

====
